---- MODULE Spec2Model ----
(***************************************************************************)
(* A model of ibkr_train.py: the rate-limited fetch loop (data_times,      *)
(* pop_data_times), the concatenation of the fetched frames, the indicator *)
(* pass, and the per-symbol normalise / window / split / concatenate loop. *)
(*                                                                         *)
(* Time is counted in ticks, TicksPerSec ticks to the second, so that the  *)
(* truncation done by timedelta.seconds is visible.  A frame is its symbol *)
(* and its number of rows; a row is named by its symbol and its position.  *)
(***************************************************************************)
EXTENDS Integers, Sequences, FiniteSets, TLC

VARIABLES
    ticker_symbols,   \* the ticker list read from ticker_symbols.json
    bars,             \* what the data source answers for each symbol
    now,              \* the wall clock, in ticks
    data_times,       \* the set of recorded request timestamps
    sleep_time,       \* the seconds computed at line 134
    idx,              \* position of the running for loop in ticker_symbols
    pc,               \* where the script is
    all_data,         \* the frames kept by the fetch loop
    issued,           \* observer: every fetch issued, with its time
    recorded,         \* observer: every timestamp ever added to data_times
    slow,             \* number of slow fetches so far
    df,               \* the concatenated frame (a sequence of rows)
    lists,            \* X_train_list, X_test_list, y_train_list, y_test_list
    contrib,          \* observer: the symbol behind each item of the lists
    out,              \* X_train, X_test, y_train, y_test after concatenation
    data, target,     \* the arguments of create_sequences
    seq_length,       \* its window length
    split_ratio,      \* the ratio of split_data, <<numerator, denominator>>
    XY,               \* the result of create_sequences
    parts             \* the result of split_data

vars == <<ticker_symbols, bars, now, data_times, sleep_time, idx, pc, all_data,
          issued, recorded, slow, df, lists, contrib, out, data, target,
          seq_length, split_ratio, XY, parts>>

fetchVars == <<now, data_times, sleep_time, all_data, issued, recorded, slow>>
pipeVars == <<df, lists, contrib, out>>
seqVars == <<data, target, seq_length, split_ratio, XY, parts>>

(***************************************************************************)
(* Program constants.                                                      *)
(***************************************************************************)
REQUEST_LIMIT == 60
REQUEST_INTERVAL == 600
IBKR_SAME_TICKER_LIMIT == 6
IBKR_SAME_TICKER_INTERVAL == 2
SecondsPerDay == 86400
SEQ_LENGTH == 60

(***************************************************************************)
(* Bounds of the model.                                                    *)
(***************************************************************************)
TicksPerSec == 4
NumTickers == 62
MaxPeriod == 2
MaxSlow == 1

\* The answer of a fetch that raises; any other answer is a number of rows.
Raise == -1

Min(S) == CHOOSE x \in S : \A y \in S : x <= y
Max(a, b) == IF a >= b THEN a ELSE b

(***************************************************************************)
(* timedelta.seconds of a non-negative difference of d ticks: the seconds  *)
(* field of the normalised (days, seconds, microseconds) triple.           *)
(***************************************************************************)
seconds(d) == (d \div TicksPerSec) % SecondsPerDay

pop_data_times(times, current_time) ==
    {fetch \in times : seconds(current_time - fetch) <= REQUEST_INTERVAL}

(***************************************************************************)
(* Inputs of the fetch loop.                                               *)
(***************************************************************************)
CycleList(m) == [i \in 1..NumTickers |-> ((i - 1) % m) + 1]
FetchTickerLists == {CycleList(m) : m \in 1..MaxPeriod}
FetchAnswers == {Raise, 0, 2}
FastFetch == 1
SlowFetches == {TicksPerSec + 1, SecondsPerDay * TicksPerSec + TicksPerSec}
FetchDurations == {FastFetch} \cup (IF slow < MaxSlow THEN SlowFetches ELSE {})

symbol == ticker_symbols[idx]

IdleSeq ==
    /\ data = <<>> /\ target = <<>> /\ seq_length = 0
    /\ split_ratio = <<0, 1>> /\ XY = <<>> /\ parts = <<>>
IdlePipe ==
    /\ df = <<>> /\ lists = <<<<>>, <<>>, <<>>, <<>>>>
    /\ contrib = <<>> /\ out = <<>>

InitFetch ==
    /\ ticker_symbols \in FetchTickerLists
    /\ bars \in [1..MaxPeriod -> FetchAnswers]
    /\ now = 0
    /\ data_times = {}
    /\ sleep_time = 0
    /\ idx = 1
    /\ pc = "reserve"
    /\ all_data = <<>>
    /\ issued = <<>>
    /\ recorded = {}
    /\ slow = 0
    /\ IdlePipe
    /\ IdleSeq

(* lines 131-134: prune, record the timestamp, decide whether to sleep.  The *)
(* three clock readings of these lines (128, 132, 134) are taken as one; the *)
(* time a fetch takes is what moves the clock between iterations.            *)
Reserve ==
    /\ pc = "reserve"
    /\ LET added == pop_data_times(data_times, now) \cup {now}
       IN  /\ data_times' = added
           /\ IF Cardinality(added) > REQUEST_LIMIT
              THEN /\ sleep_time' = REQUEST_INTERVAL - seconds(now - Min(added))
                   /\ pc' = "sleep"
              ELSE /\ sleep_time' = sleep_time
                   /\ pc' = "fetch"
    /\ recorded' = recorded \cup {now}
    /\ UNCHANGED <<ticker_symbols, bars, now, idx, all_data, issued, slow>>
    /\ UNCHANGED <<pipeVars, seqVars>>

(* lines 135-137: ib.sleep(sleep_time) for exactly the seconds asked, a     *)
(* negative delay returning at once, then prune again.                       *)
Sleep ==
    /\ pc = "sleep"
    /\ now' = now + Max(sleep_time, 0) * TicksPerSec
    /\ data_times' = pop_data_times(data_times, now')
    /\ pc' = "fetch"
    /\ UNCHANGED <<ticker_symbols, bars, sleep_time, idx, all_data, issued,
                   recorded, slow>>
    /\ UNCHANGED <<pipeVars, seqVars>>

(* lines 138-143: the fetch answers; a non-empty frame is kept. *)
FetchReturns ==
    /\ pc = "fetch"
    /\ bars[symbol] # Raise
    /\ issued' = Append(issued, [t |-> now, symbol |-> symbol])
    /\ \E d \in FetchDurations :
          /\ now' = now + d
          /\ slow' = IF d = FastFetch THEN slow ELSE slow + 1
    /\ all_data' = IF bars[symbol] > 0
                   THEN Append(all_data, [symbol |-> symbol, rows |-> bars[symbol]])
                   ELSE all_data
    /\ idx' = idx + 1
    /\ pc' = IF idx < Len(ticker_symbols) THEN "reserve" ELSE "fetched"
    /\ UNCHANGED <<ticker_symbols, bars, data_times, sleep_time, recorded>>
    /\ UNCHANGED <<pipeVars, seqVars>>

(* line 138 with fetch_ibkr_data raising: nothing catches it, the script ends. *)
FetchRaises ==
    /\ pc = "fetch"
    /\ bars[symbol] = Raise
    /\ issued' = Append(issued, [t |-> now, symbol |-> symbol])
    /\ pc' = "raised"
    /\ UNCHANGED <<ticker_symbols, bars, now, data_times, sleep_time, idx,
                   all_data, recorded, slow>>
    /\ UNCHANGED <<pipeVars, seqVars>>

NextFetch == Reserve \/ Sleep \/ FetchReturns \/ FetchRaises

SpecFetch == InitFetch /\ [][NextFetch]_vars

(***************************************************************************)
(* Observers of the fetch loop.                                            *)
(***************************************************************************)
LastIssued == issued[Len(issued)]
IssuedSince(t) == {j \in 1..Len(issued) : issued[j].t > t}

\* C1: no window of REQUEST_INTERVAL seconds holds more than REQUEST_LIMIT
\* issued fetches (stated for the window that ends with the latest fetch).
C1_GlobalLimit ==
    Len(issued) > 0 =>
        Cardinality(IssuedSince(LastIssued.t - REQUEST_INTERVAL * TicksPerSec))
            <= REQUEST_LIMIT

\* C2: no window of IBKR_SAME_TICKER_INTERVAL seconds holds more than
\* IBKR_SAME_TICKER_LIMIT issued fetches of one ticker (stated for the window
\* that ends with the latest fetch).
C2_SameTickerLimit ==
    Len(issued) > 0 =>
        Cardinality({j \in IssuedSince(LastIssued.t
                                        - IBKR_SAME_TICKER_INTERVAL * TicksPerSec) :
                        issued[j].symbol = LastIssued.symbol})
            <= IBKR_SAME_TICKER_LIMIT

\* C3: a fetch that raises does not end the run: the script never stops on the
\* exception, and when the loop is over every symbol of the list was fetched.
C3_FailureSkipped ==
    /\ pc # "raised"
    /\ pc = "fetched" => Len(issued) = Len(ticker_symbols)

\* C10: right after pop_data_times, data_times holds exactly the recorded
\* timestamps whose true age is at most REQUEST_INTERVAL seconds.
C10_PrunedByAge ==
    pc \in {"sleep", "fetch"} =>
        data_times = {t \in recorded : now - t <= REQUEST_INTERVAL * TicksPerSec}

(***************************************************************************)
(* numpy arrays: the number of dimensions and the items along axis 0.      *)
(* np.array of an empty list has shape (0,); of a list of arrays that have *)
(* d dimensions each, d + 1 dimensions.                                    *)
(***************************************************************************)
np_array(list, d) == [ndim |-> IF list = <<>> THEN 1 ELSE d + 1, items |-> list]
Slice(a, from, to) == [ndim |-> a.ndim, items |-> SubSeq(a.items, from, to)]

(* lines 104-107: for i in range(len(data) - seq_length), 0-based i. *)
RECURSIVE create_loop(_, _, _, _, _, _)
create_loop(d, t, L, i, sequences, targets) ==
    IF i >= Len(d) - L
    THEN <<sequences, targets>>
    ELSE create_loop(d, t, L, i + 1,
                     Append(sequences, SubSeq(d, i + 1, i + L)),
                     Append(targets, t[i + L + 1]))

create_sequences_late(d, t, L) ==
    LET r == create_loop(d, t, L - 1, 0, <<>>, <<>>)
    IN  <<np_array(r[1], 2), np_array(r[2], 0)>>

create_sequences(d, t, L) ==
    LET r == create_loop(d, t, L, 0, <<>>, <<>>)
    IN  <<np_array(r[1], 2), np_array(r[2], 0)>>

(***************************************************************************)
(* int(split_ratio * len(X)) for the ratio num/den.  The script only uses  *)
(* 0.8; the double nearest 0.8 lies above 4/5, so the rounded product is   *)
(* never below 4n/5 and int() gives floor(4n/5).  The other ratios of the  *)
(* model are dyadic, where the product is exact.                           *)
(***************************************************************************)
split_index(r, n) == (r[1] * n) \div r[2]

split_data_gap(X, y, r) ==
    LET n == Len(X.items)
        split == split_index(r, n)
    IN  <<Slice(X, 1, split), Slice(X, split + 2, n),
          Slice(y, 1, split), Slice(y, split + 2, n)>>

(* lines 112-115: returns X_train, X_test, y_train, y_test. *)
split_data(X, y, r) ==
    LET n == Len(X.items)
        split == split_index(r, n)
    IN  <<Slice(X, 1, split), Slice(X, split + 1, n),
          Slice(y, 1, split), Slice(y, split + 1, n)>>

(***************************************************************************)
(* create_sequences and split_data on their own, on bounded inputs: row i  *)
(* of the matrix is named i and its target value is TargetBase + i.  The   *)
(* window lengths are the small ones and the script's own, 60.             *)
(***************************************************************************)
MaxRows == 12
MaxSeqLen == 3
TargetBase == 100
Ratios == {<<4, 5>>, <<1, 2>>, <<3, 4>>, <<0, 1>>, <<1, 1>>}
DefaultRatio == <<4, 5>>
RowCounts == 0..MaxRows \cup {SEQ_LENGTH, SEQ_LENGTH + 1, SEQ_LENGTH + 10}
SeqLengths == 1..MaxSeqLen \cup {SEQ_LENGTH}

IdleFetch ==
    /\ ticker_symbols = <<>> /\ bars = <<>> /\ now = 0 /\ data_times = {}
    /\ sleep_time = 0 /\ idx = 1 /\ all_data = <<>> /\ issued = <<>>
    /\ recorded = {} /\ slow = 0

InitSeq ==
    /\ IdleFetch
    /\ IdlePipe
    /\ \E n \in RowCounts :
          /\ data = [i \in 1..n |-> i]
          /\ target = [i \in 1..n |-> TargetBase + i]
    /\ seq_length \in SeqLengths
    /\ Len(data) - seq_length <= MaxRows
    /\ split_ratio \in Ratios
    /\ XY = <<>>
    /\ parts = <<>>
    /\ pc = "input"

CreateSequences ==
    /\ pc = "input"
    /\ XY' = create_sequences(data, target, seq_length)
    /\ pc' = "windowed"
    /\ UNCHANGED <<ticker_symbols, bars, idx, fetchVars, pipeVars>>
    /\ UNCHANGED <<data, target, seq_length, split_ratio, parts>>

SplitData ==
    /\ pc = "windowed"
    /\ parts' = split_data(XY[1], XY[2], split_ratio)
    /\ pc' = "split"
    /\ UNCHANGED <<ticker_symbols, bars, idx, fetchVars, pipeVars>>
    /\ UNCHANGED <<data, target, seq_length, split_ratio, XY>>

NextSeq == CreateSequences \/ SplitData

SpecSeq == InitSeq /\ [][NextSeq]_vars

Range(f) == {f[i] : i \in DOMAIN f}

\* C8: create_sequences on n rows returns max(n - L, 0) sequences; the i-th is
\* rows i..i+L-1 in order and the i-th target is target[i+L] (0-based); n = L
\* gives none, n = L + 1 gives one whose target is the last row's.
C8_Windows ==
    pc \in {"windowed", "split"} =>
        LET n == Len(data)
            L == seq_length
            X == XY[1].items
            y == XY[2].items
        IN  /\ Len(X) = Max(n - L, 0)
            /\ Len(y) = Len(X)
            /\ \A i \in 1..Len(X) :
                  /\ X[i] = [k \in 1..L |-> data[i + k - 1]]
                  /\ y[i] = target[i + L]
            /\ n = L => X = <<>> /\ y = <<>>
            /\ n = L + 1 => Len(X) = 1 /\ y = <<target[n]>>

C8_Witness ==
    /\ pc = "windowed"
    /\ Len(data) = seq_length + 1
    /\ seq_length = SEQ_LENGTH
    /\ Len(XY[1].items) = 1
    /\ XY[2].items = <<TargetBase + Len(data)>>

\* C9: split_data is positional: with k = floor(r * len(X)) the train parts
\* are the first k items of X and y, the test parts the rest, in order; for
\* r = 0.8 and 10 items the train part is items 0..7 and the test part 8..9.
C9_Positional ==
    pc = "split" =>
        LET X == XY[1].items
            y == XY[2].items
            n == Len(X)
            k == (split_ratio[1] * n) \div split_ratio[2]
        IN  /\ parts[1].items = [i \in 1..k |-> X[i]]
            /\ parts[3].items = [i \in 1..k |-> y[i]]
            /\ parts[2].items = [i \in 1..(n - k) |-> X[k + i]]
            /\ parts[4].items = [i \in 1..(n - k) |-> y[k + i]]
            /\ parts[1].items \o parts[2].items = X
            /\ parts[3].items \o parts[4].items = y
            /\ (split_ratio = DefaultRatio /\ n = 10) =>
                  /\ Len(parts[1].items) = 8
                  /\ parts[2].items = <<X[9], X[10]>>
                  /\ parts[4].items = <<y[9], y[10]>>

C9_Witness ==
    /\ pc = "split"
    /\ split_ratio = DefaultRatio
    /\ seq_length = SEQ_LENGTH
    /\ Len(XY[1].items) = 10
    /\ Len(parts[1].items) = 8
    /\ Len(parts[2].items) = 2

(***************************************************************************)
(* The script after the fetch loop (lines 145-186).  A row of df is the    *)
(* symbol and frame it came from and its position there; once the          *)
(* indicators are computed it also holds, per indicator, the first         *)
(* position of df the value was computed from (0: not-a-number), the last  *)
(* being the row's own.  The feature matrix handed to create_sequences     *)
(* names each row by its position in df.                                   *)
(***************************************************************************)
BB_WINDOW == 20
STOCH_WINDOW == 14
STOCH_D_WINDOW == 3
ADX_WINDOW == 14
STD_WINDOW == 20

MaxSymbols == 3
MaxPipeTickers == 3
PipeAnswers == {0, 30, 61, 66}

(* lines 130-143 with no fetch raising: the non-empty frames, in list order. *)
RECURSIVE fetched_frames(_, _)
fetched_frames(tickers, answers) ==
    IF tickers = <<>>
    THEN <<>>
    ELSE LET n == Len(tickers)
             before == fetched_frames(SubSeq(tickers, 1, n - 1), answers)
         IN  IF answers[tickers[n]] > 0
             THEN Append(before, [symbol |-> tickers[n], rows |-> answers[tickers[n]]])
             ELSE before

(* pd.concat(all_data): the rows of the frames, one frame after the other. *)
RECURSIVE pd_concat(_)
pd_concat(frames) ==
    IF frames = <<>>
    THEN <<>>
    ELSE LET n == Len(frames)
         IN  pd_concat(SubSeq(frames, 1, n - 1))
                 \o [k \in 1..frames[n].rows |->
                        [symbol |-> frames[n].symbol, frame |-> n, k |-> k]]

(* Series.rolling(window=w) at row j: rows j-w+1..j, or not-a-number. *)
rolling(j, w) == IF j >= w THEN j - w + 1 ELSE 0
(* Series.ewm(..., adjust=False) at row j: every row from the first one on. *)
ewm(j) == 1
(* a rolling window over a column that is itself a window starting at from(i) *)
rolling_of(j, w, first, from) == IF j - w + 1 >= first THEN from ELSE 0

(* lines 58-90, on row j of the frame it is handed. *)
calculate_additional_indicators(frame) ==
    [j \in 1..Len(frame) |->
        [symbol |-> frame[j].symbol, frame |-> frame[j].frame, k |-> frame[j].k,
         BB   |-> rolling(j, BB_WINDOW),
         MACD |-> ewm(j),
         K    |-> rolling(j, STOCH_WINDOW),
         D    |-> rolling_of(j, STOCH_D_WINDOW, STOCH_WINDOW,
                             j - STOCH_D_WINDOW + 1 - STOCH_WINDOW + 1),
         ADX  |-> rolling_of(j, ADX_WINDOW, ADX_WINDOW, ewm(j)),
         STD  |-> rolling(j, STD_WINDOW)]]

Indicators(row) == <<row.BB, row.MACD, row.K, row.D, row.ADX, row.STD>>
IsNaN(row) == \E i \in 1..6 : Indicators(row)[i] = 0

(* line 95 and line 173: the positions in df of the rows of sym, in order. *)
normalize_data(frame, sym) ==
    SelectSeq([j \in 1..Len(frame) |-> j], LAMBDA j : frame[j].symbol = sym)

(* np.concatenate(arrays, axis=0): the arrays must agree in dimensions. *)
RECURSIVE flatten(_)
flatten(arrays) ==
    IF arrays = <<>> THEN <<>>
    ELSE flatten(SubSeq(arrays, 1, Len(arrays) - 1)) \o arrays[Len(arrays)].items
concatenable(arrays) ==
    /\ arrays # <<>>
    /\ \A i \in DOMAIN arrays : arrays[i].ndim = arrays[1].ndim
np_concatenate(arrays) == [ndim |-> arrays[1].ndim, items |-> flatten(arrays)]

InitPipe ==
    /\ \E n \in 1..MaxPipeTickers : ticker_symbols \in [1..n -> 1..MaxSymbols]
    /\ \A i, j \in DOMAIN ticker_symbols : ticker_symbols[i] = ticker_symbols[j] => i = j
    /\ bars \in [1..MaxSymbols -> PipeAnswers]
    /\ all_data = fetched_frames(ticker_symbols, bars)
    /\ pc = "fetched"
    /\ idx = 1
    /\ now = 0 /\ data_times = {} /\ sleep_time = 0 /\ issued = <<>>
    /\ recorded = {} /\ slow = 0
    /\ IdlePipe
    /\ IdleSeq

pipeFrame == <<ticker_symbols, bars, fetchVars, seqVars>>

(* lines 145-146 and 150-159: concatenate, merge, compute the indicators. *)
ConcatAndEnrich ==
    /\ pc = "fetched"
    /\ all_data # <<>>
    /\ df' = calculate_additional_indicators(pd_concat(all_data))
    /\ idx' = 1
    /\ pc' = "symbols"
    /\ UNCHANGED <<lists, contrib, out, pipeFrame>>

(* lines 147-148, 150 and 230: nothing was fetched. *)
NoData ==
    /\ pc = "fetched"
    /\ all_data = <<>>
    /\ pc' = "no_data"
    /\ UNCHANGED <<idx, pipeVars, pipeFrame>>

(* line 169: df['symbol'].values *)
InFrame == {df[j].symbol : j \in DOMAIN df}

LoopPc == IF idx < Len(ticker_symbols) THEN "symbols" ELSE "concatenate"

(* lines 169-178: normalise, window and split one symbol of df. *)
ProcessSymbol ==
    /\ pc = "symbols"
    /\ symbol \in InFrame
    /\ LET symbol_data == normalize_data(df, symbol)
           Xy == create_sequences(symbol_data, symbol_data, SEQ_LENGTH)
           p == split_data(Xy[1], Xy[2], DefaultRatio)
       IN  lists' = [i \in 1..4 |-> Append(lists[i], p[i])]
    /\ contrib' = Append(contrib, symbol)
    /\ idx' = idx + 1
    /\ pc' = LoopPc
    /\ UNCHANGED <<df, out, pipeFrame>>

(* lines 179-180: the symbol has no row in df. *)
SkipSymbol ==
    /\ pc = "symbols"
    /\ symbol \notin InFrame
    /\ idx' = idx + 1
    /\ pc' = LoopPc
    /\ UNCHANGED <<pipeVars, pipeFrame>>

(* lines 183-186. *)
Concatenate ==
    /\ pc = "concatenate"
    /\ \A i \in 1..4 : concatenable(lists[i])
    /\ out' = [i \in 1..4 |-> np_concatenate(lists[i])]
    /\ pc' = "dataset"
    /\ UNCHANGED <<idx, df, lists, contrib, pipeFrame>>

(* lines 183-186 with arrays of different dimensions: ValueError. *)
ConcatenateFails ==
    /\ pc = "concatenate"
    /\ \E i \in 1..4 : ~concatenable(lists[i])
    /\ pc' = "concat_error"
    /\ UNCHANGED <<idx, pipeVars, pipeFrame>>

NextPipe ==
    \/ ConcatAndEnrich \/ NoData \/ ProcessSymbol \/ SkipSymbol
    \/ Concatenate \/ ConcatenateFails

SpecPipe == InitPipe /\ [][NextPipe]_vars

Listed == Range(ticker_symbols)
AfterSymbols == pc \in {"concatenate", "dataset", "concat_error"}
UsableRows(sym) == {j \in DOMAIN df : df[j].symbol = sym /\ ~IsNaN(df[j])}

EmptySymbols == {s \in Listed : bars[s] = 0}
EnoughSymbols == {s \in Listed : bars[s] > SEQ_LENGTH}
ShortSymbols ==
    {s \in Listed : bars[s] > 0 /\ Cardinality(UsableRows(s)) < SEQ_LENGTH + 1}

\* C4: when one listed symbol's fetch is empty and another has enough rows, the
\* run reaches the concatenation without error and no sequence or target of
\* the dataset comes from a row of the empty symbol.
C4_EmptyExcluded ==
    (\E e \in EmptySymbols : EnoughSymbols \ {e} # {}) =>
        /\ pc \notin {"concat_error", "no_data"}
        /\ pc = "dataset" =>
              /\ \A p \in {1, 2} : \A i \in DOMAIN out[p].items :
                    \A k \in DOMAIN out[p].items[i] :
                        df[out[p].items[i][k]].symbol \notin EmptySymbols
              /\ \A p \in {3, 4} : \A i \in DOMAIN out[p].items :
                    df[out[p].items[i]].symbol \notin EmptySymbols

\* C5: a symbol fetched non-empty with fewer than SEQ_LENGTH + 1 rows free of
\* not-a-number contributes no sequence to the partition lists, and the
\* concatenation of the remaining symbols does not fail.
C5_ShortSkipped ==
    AfterSymbols =>
        /\ \A i \in DOMAIN contrib :
              contrib[i] \in ShortSymbols =>
                  \A l \in 1..4 : lists[l][i].items = <<>>
        /\ ShortSymbols # {} => pc # "concat_error"

\* C6: every indicator value of a row is computed only from rows of the row's
\* own symbol.
C6_OwnHistory ==
    pc \in {"symbols", "concatenate", "dataset", "concat_error"} =>
        \A j \in DOMAIN df : \A i \in 1..6 :
            LET first == Indicators(df[j])[i]
            IN  first > 0 => \A m \in first..j : df[m].symbol = df[j].symbol

\* C7: for every symbol, after create_sequences and split_data, no window of
\* the test partition shares a row of the symbol's matrix with a window of the
\* train partition.
C7_NoSharedRows ==
    AfterSymbols =>
        \A s \in DOMAIN contrib :
            \A i \in DOMAIN lists[1][s].items : \A j \in DOMAIN lists[2][s].items :
                Range(lists[1][s].items[i]) \cap Range(lists[2][s].items[j]) = {}

\* The fetch loop, when no fetch raises, leaves in all_data the frames the
\* later stages are started from.
LoopLeavesFetchedFrames ==
    pc = "fetched" => all_data = fetched_frames(ticker_symbols, bars)
====
